---- MODULE Spec2Model ----
\* A model of cuegui/PreviewWidget.py: the preview dialog (UI thread), the
\* watch thread it starts for every non-empty playlist, the Qt event queue
\* between the two, and the environment (filesystem, clock, frame log).
EXTENDS Integers, Sequences, FiniteSets, TLC

\* ---------------------------------------------------------------- bounds
MaxCalls == 1
MaxItems == 2
MaxTime == 1
Paths == {"/a", "/b"}

\* ------------------------------------------------------ program constants
BaseTimeout == 60
PerItemTimeout == 30
ScanLimit == 5000
SleepSeconds == 1
QtDefaultMaximum == 100

None == 0
Threads == 1..MaxCalls

\* ------------------------------------------------------------ sequences
RECURSIVE SeqsUpTo(_, _)
SeqsUpTo(S, n) ==
    IF n = 0 THEN {<<>>}
    ELSE LET shorter == SeqsUpTo(S, n - 1)
         IN  shorter \cup {Append(s, x) : s \in shorter, x \in S}

ItemLists == SeqsUpTo(Paths, MaxItems)

SetMin(S) == CHOOSE i \in S : \A j \in S : i <= j

\* --------------------------------------------------- text of the frame log
\* A line is the sequence of its characters.
PreviewPrefix == <<"P","r","e","v","i","e","w"," ","S","e","r","v","e","r">>
Whitespace == {" ", "\n", "\t", "\r"}
Digits == <<"0","1","2","3","4","5","6","7","8","9">>
Port9321 == <<"9","3","2","1">>
Port80 == <<"8","0">>

PreviewLine(digits) == PreviewPrefix \o <<" ", ":", " ">> \o digits \o <<"\n">>
IndentedLine(digits) == <<" ">> \o PreviewLine(digits)
NoColonLine == PreviewPrefix \o <<" ", "u", "p", "\n">>
FillerLine == <<"r", "e", "n", "d", "e", "r", "\n">>

\* A log file is the sequence of its lines, written as runs: n copies of one
\* line after the other.
Run(n, line) == [n |-> n, line |-> line]

\* The frame logs of the model, by name, and their lines.
Logs ==
    { "empty", "noPort", "portAt2", "twoPorts", "indented", "noColon",
      "portAt4999", "portAt5000", "portAtLast5000", "portAt5001" }

LogFile(name) ==
    CASE name = "empty" -> <<>>
      [] name = "noPort" -> <<Run(3, FillerLine)>>
      [] name = "portAt2" ->
            <<Run(1, FillerLine), Run(1, PreviewLine(Port9321)), Run(1, FillerLine)>>
      [] name = "twoPorts" ->
            <<Run(1, PreviewLine(Port80)), Run(1, PreviewLine(Port9321)),
              Run(1, FillerLine)>>
      [] name = "indented" ->
            <<Run(1, FillerLine), Run(1, IndentedLine(Port9321)), Run(1, FillerLine)>>
      [] name = "noColon" -> <<Run(1, NoColonLine), Run(2, FillerLine)>>
      [] name = "portAt4999" ->
            <<Run(ScanLimit - 2, FillerLine), Run(1, PreviewLine(Port9321)),
              Run(2, FillerLine)>>
      [] name = "portAt5000" ->
            <<Run(ScanLimit - 1, FillerLine), Run(1, PreviewLine(Port9321)),
              Run(1, FillerLine)>>
      [] name = "portAtLast5000" ->
            <<Run(ScanLimit - 1, FillerLine), Run(1, PreviewLine(Port80))>>
      [] name = "portAt5001" ->
            <<Run(ScanLimit, FillerLine), Run(1, PreviewLine(Port9321))>>

\* str.startswith
StartsWith(line, prefix) ==
    /\ Len(line) >= Len(prefix)
    /\ SubSeq(line, 1, Len(prefix)) = prefix

\* str.split(sep): the segments between the separators
RECURSIVE Split(_, _)
Split(s, sep) ==
    LET idx == {i \in 1..Len(s) : s[i] = sep}
    IN  IF idx = {} THEN <<s>>
        ELSE LET i == SetMin(idx)
             IN  <<SubSeq(s, 1, i - 1)>> \o Split(SubSeq(s, i + 1, Len(s)), sep)

\* str.strip(): leading and trailing whitespace removed
RECURSIVE Strip(_)
Strip(s) ==
    IF s = <<>> THEN s
    ELSE IF s[1] \in Whitespace THEN Strip(Tail(s))
    ELSE IF s[Len(s)] \in Whitespace THEN Strip(SubSeq(s, 1, Len(s) - 1))
    ELSE s

DigitValue(c) == (CHOOSE i \in 1..10 : Digits[i] = c) - 1
IsDigit(c) == \E i \in 1..10 : Digits[i] = c

\* int(s) of a decimal numeral
RECURSIVE ToInt(_)
ToInt(s) ==
    IF Len(s) = 1 THEN DigitValue(s[1])
    ELSE 10 * ToInt(SubSeq(s, 1, Len(s) - 1)) + DigitValue(s[Len(s)])

IsNumeral(s) == s # <<>> /\ \A i \in 1..Len(s) : IsDigit(s[i])

\* int(line.split(":")[1].strip())
ParsePort(line) ==
    LET parts == Split(line, ":")
    IN  IF Len(parts) < 2 THEN [kind |-> "raise", exc |-> "IndexError", port |-> 0]
        ELSE IF ~IsNumeral(Strip(parts[2]))
             THEN [kind |-> "raise", exc |-> "ValueError", port |-> 0]
        ELSE [kind |-> "return", exc |-> "", port |-> ToInt(Strip(parts[2]))]

PortNotFoundAsPortZero == [kind |-> "return", exc |-> "", port |-> 0]

\* raise Exception("Katana 2.7.19 and above is required for preview feature.")
PortNotFound == [kind |-> "raise", exc |-> "PortNotFound", port |-> 0]

\* "if counter >= 5000: break", for the line that made the count counter
Breaks(counter) == counter >= ScanLimit

\* The loop of __findHttpPort over the rest of the file, counter lines having
\* been read. The count only grows, so within a run of lines that do not
\* start with "Preview Server" the break is taken iff it is taken at the
\* run's last line; of a run of lines that do, the first decides. Leaving the
\* loop, by the break or at the end of the file, raises the exception of
\* line 144.
RECURSIVE Scan(_, _)
Scan(runs, counter) ==
    IF runs = <<>> THEN PortNotFound
    ELSE LET r == Head(runs)
         IN  IF StartsWith(r.line, PreviewPrefix)
             THEN IF Breaks(counter + 1) THEN PortNotFound ELSE ParsePort(r.line)
             ELSE IF Breaks(counter + r.n) THEN PortNotFound
             ELSE Scan(Tail(runs), counter + r.n)

\* __findHttpPort
findHttpPort(file) == Scan(file, 0)

\* -------------------------------------------------------- the watch thread
\* Signals declared on PreviewProcessorWatchThread (class attributes).
Signals == {"existCountChanged"}
HasSignal(name) == name \in Signals

TimeoutMisparenthesised(items) == (BaseTimeout + PerItemTimeout) * Len(items)

\* self.__timeout of __init__
Timeout(items) == BaseTimeout + (PerItemTimeout * Len(items))

ExistCountDistinct(items, files) ==
    Cardinality({items[i] : i \in DOMAIN items} \cap files)

\* len([path for path in self.__items if os.path.exists(path)])
ExistCount(items, files) == Cardinality({i \in DOMAIN items : items[i] \in files})

NoWorker ==
    [pc |-> "absent", items |-> <<>>, timeout |-> 0, start |-> 0,
     count |-> 0, ticks |-> 0, sleepFrom |-> 0]

\* PreviewProcessorWatchThread(items, self) followed by start()
NewWorker(items) ==
    [pc |-> "started", items |-> items, timeout |-> Timeout(items), start |-> 0,
     count |-> 0, ticks |-> 0, sleepFrom |-> 0]

VARIABLES
    fs,            \* the paths that exist on the filesystem
    log,           \* the log file of the dialog's frame (its name in Logs)
    everExisted,   \* history: the paths that have existed at some moment
    now,           \* time.time(), in whole seconds
    calls,         \* number of process() calls made so far
    uiPc,          \* position of the UI thread: "idle" or "connect" (line 101)
    lastResult,    \* how the last process() call has gone so far
    lastPort,      \* http_port of the last process() call
    lastItems,     \* items of the last process() call that parsed a playlist
    fetches,       \* number of playlists fetched from a preview server
    previewThread, \* self.__previewThread
    itvFile,       \* self.__itvFile
    tmpFiles,      \* number of playlist files written by __writePlaylist
    appThreads,    \* self.app.threads
    progRange,     \* range of self.__progbar
    progValue,     \* value of self.__progbar
    closed,        \* self.close() has been called
    errorBoxes,    \* number of "Preview Timeout" message boxes shown
    connected,     \* <<thread, signal>> pairs connected to a slot of the dialog
    queue,         \* the UI thread's event queue of pending slot calls
    worker,        \* the watch threads, by thread id
    emitted,       \* history: what each watch thread has emitted
    received       \* history: the slot calls the dialog has run, per thread

vars ==
    <<fs, log, everExisted, now, calls, uiPc, lastResult, lastPort, lastItems,
      fetches, previewThread, itvFile, tmpFiles, appThreads, progRange, progValue,
      closed, errorBoxes, connected, queue, worker, emitted, received>>

envVars == <<fs, log, everExisted, now>>
dialogVars == <<progRange, progValue, closed, errorBoxes>>
processVars ==
    <<calls, uiPc, lastResult, lastPort, lastItems, fetches, previewThread,
      itvFile, tmpFiles, appThreads, connected>>

\* PreviewProcessorDialog.__init__ for a frame with any of the logs, on any
\* filesystem, and with no thread yet.
Init ==
    /\ fs \in SUBSET Paths
    /\ log \in Logs
    /\ everExisted = fs
    /\ now = 0
    /\ calls = 0
    /\ uiPc = "idle"
    /\ lastResult = "none"
    /\ lastPort = 0
    /\ lastItems = <<>>
    /\ fetches = 0
    /\ previewThread = None
    /\ itvFile = None
    /\ tmpFiles = 0
    /\ appThreads = <<>>
    /\ progRange = <<0, QtDefaultMaximum>>
    /\ progValue = -1
    /\ closed = FALSE
    /\ errorBoxes = 0
    /\ connected = {}
    /\ queue = <<>>
    /\ worker = [t \in Threads |-> NoWorker]
    /\ emitted = [t \in Threads |-> <<>>]
    /\ received = [t \in Threads |-> <<>>]

\* ------------------------------------------------------------- signals
Notification(t, sig, cur, max) == [thread |-> t, sig |-> sig, cur |-> cur, max |-> max]

PostTwice(q, t, sig, cur, max) ==
    IF <<t, sig>> \in connected
    THEN Append(Append(q, Notification(t, sig, cur, max)), Notification(t, sig, cur, max))
    ELSE q

\* An emission reaches the UI thread's event queue (a queued connection: the
\* receiver lives in the UI thread) if the signal is connected at that moment.
Post(q, t, sig, cur, max) ==
    IF <<t, sig>> \in connected THEN Append(q, Notification(t, sig, cur, max)) ELSE q

\* ------------------------------------------------- PreviewProcessorDialog
SetRangeOffByOne(n) ==
    /\ progRange' = <<0, n - 1>>
    /\ progValue' = IF progValue > n - 1 THEN -1 ELSE progValue

\* QProgressBar.setRange(0, n): a value above the new maximum is reset.
SetRange(n) ==
    /\ progRange' = <<0, n>>
    /\ progValue' = IF progValue > n THEN -1 ELSE progValue

\* QProgressBar.setValue(v): ignored when v is outside the range.
SetValue(v) ==
    progValue' = IF v >= progRange[1] /\ v <= progRange[2] THEN v ELSE progValue

RegisterNothing(threads, t) == threads

\* self.app.threads.append(self.__previewThread)
Register(threads, t) == Append(threads, t)

PlaylistEmptyIgnored(items) == FALSE

\* "if not items"
PlaylistEmpty(items) == items = <<>>

\* process(), lines 80-99: the port from the frame log, the playlist from the
\* preview server (items: what the server lists), and for a non-empty list
\* the playlist file, the watch thread (created, registered and started) and
\* the range of the progress bar.
process(items) ==
    /\ uiPc = "idle"
    /\ calls < MaxCalls
    /\ calls' = calls + 1
    /\ LET found == findHttpPort(LogFile(log))
           t == Len(appThreads) + 1
       IN  IF found.kind = "raise"
           THEN /\ lastResult' = found.exc
                /\ lastPort' = 0
                /\ lastItems' = <<>>
                /\ UNCHANGED <<fetches, uiPc, previewThread, itvFile, tmpFiles, appThreads,
                               progRange, progValue, worker>>
           ELSE IF PlaylistEmpty(items)
           THEN /\ lastResult' = "PlaylistEmpty"
                /\ lastPort' = found.port
                /\ lastItems' = items
                /\ fetches' = fetches + 1
                /\ UNCHANGED <<uiPc, previewThread, itvFile, tmpFiles, appThreads,
                               progRange, progValue, worker>>
           ELSE /\ lastResult' = "Polling"
                /\ lastPort' = found.port
                /\ lastItems' = items
                /\ fetches' = fetches + 1
                /\ tmpFiles' = tmpFiles + 1
                /\ itvFile' = tmpFiles + 1
                /\ previewThread' = t
                /\ worker' = [worker EXCEPT ![t] = NewWorker(items)]
                /\ appThreads' = Register(appThreads, t)
                /\ SetRange(Len(items))
                /\ uiPc' = "connect"
    /\ UNCHANGED <<envVars, closed, errorBoxes, connected, queue, emitted, received>>

\* process(), lines 101-102: existCountChanged is connected; the attribute
\* timeout is looked up on the thread and, not being declared, raises
\* AttributeError out of process().
processConnect ==
    /\ uiPc = "connect"
    /\ uiPc' = "idle"
    /\ IF HasSignal("timeout")
       THEN /\ connected' = connected \cup {<<previewThread, "existCountChanged">>,
                                            <<previewThread, "timeout">>}
            /\ lastResult' = "Connected"
       ELSE /\ connected' = connected \cup {<<previewThread, "existCountChanged">>}
            /\ lastResult' = "AttributeError"
    /\ UNCHANGED <<envVars, dialogVars, calls, lastPort, lastItems, fetches,
                   previewThread, itvFile, tmpFiles, appThreads, queue, worker, emitted, received>>

\* updateProgressDialog(current, max_progress)
updateProgressDialog(current, max_progress) ==
    IF max_progress # current
    THEN /\ SetValue(current)
         /\ UNCHANGED <<progRange, closed, errorBoxes>>
    ELSE /\ closed' = TRUE
         /\ UNCHANGED <<progRange, progValue, errorBoxes>>

\* processTimedOut()
processTimedOut ==
    /\ closed' = TRUE
    /\ errorBoxes' = errorBoxes + 1
    /\ UNCHANGED <<progRange, progValue>>

\* The UI event loop runs the slot of the oldest pending notification.
deliver ==
    /\ uiPc = "idle"
    /\ queue # <<>>
    /\ LET n == Head(queue)
       IN  /\ IF n.sig = "timeout"
              THEN processTimedOut
              ELSE updateProgressDialog(n.cur, n.max)
           /\ received' = [received EXCEPT ![n.thread] = Append(@, n)]
    /\ queue' = Tail(queue)
    /\ UNCHANGED <<envVars, processVars, worker, emitted>>

\* --------------------------------------------- PreviewProcessorWatchThread
TickExitWithoutBreak(count, total) == "sleep"

\* Lines 169-171: where a tick leaves the loop after the emission of line 168.
\* The attribute existsCountChanged is not declared on the thread, so the
\* lookup raises AttributeError and run() ends there.
TickExit(count, total) ==
    IF ~HasSignal("existsCountChanged") THEN "raised"
    ELSE IF count = total THEN "completed"
    ELSE "sleep"

\* self.__timeout + start_time, the deadline of line 173
Deadline(w) == w.timeout + w.start

\* Lines 173-176: after the sleep, the deadline test; the attribute timeout is
\* not declared on the thread, so its lookup would raise AttributeError.
SleepExit(w) ==
    IF now > Deadline(w)
    THEN IF HasSignal("timeout") THEN "timedout" ELSE "raised"
    ELSE "tick"

\* One tick of the loop (lines 167-171), with start_time taken first when it
\* is the first (line 165).
tick(t, w) ==
    LET count == ExistCount(w.items, fs)
        total == Len(w.items)
        exit == TickExit(count, total)
        first == Notification(t, "existCountChanged", count, total)
        second == Notification(t, "existsCountChanged", count, total)
    IN  /\ worker' = [worker EXCEPT ![t] =
                [w EXCEPT !.pc = exit, !.count = count, !.ticks = w.ticks + 1,
                          !.sleepFrom = now]]
        /\ queue' = Post(queue, t, "existCountChanged", count, total)
        /\ emitted' = [emitted EXCEPT ![t] =
                IF HasSignal("existsCountChanged")
                THEN Append(Append(@, first), second) ELSE Append(@, first)]

\* time.sleep(1) has returned (lines 172-176).
wake(t, w) ==
    LET exit == SleepExit(w)
    IN  /\ now >= w.sleepFrom + SleepSeconds
        /\ worker' = [worker EXCEPT ![t].pc = exit]
        /\ queue' = IF exit = "timedout" THEN Post(queue, t, "timeout", 0, 0) ELSE queue
        /\ emitted' = [emitted EXCEPT ![t] =
                IF exit = "timedout"
                THEN Append(@, Notification(t, "timeout", 0, 0)) ELSE @]

runTouchingDialog(t) ==
    /\ worker[t].pc \in {"started", "tick", "sleep"}
    /\ IF worker[t].pc = "started" THEN tick(t, [worker[t] EXCEPT !.start = now])
       ELSE IF worker[t].pc = "tick" THEN tick(t, worker[t])
       ELSE wake(t, worker[t])
    /\ closed' = (closed \/ worker'[t].count = Len(worker[t].items))
    /\ progValue' = worker'[t].count
    /\ UNCHANGED <<envVars, progRange, errorBoxes, processVars, received>>

\* The next step of run() in thread t.
run(t) ==
    /\ worker[t].pc \in {"started", "tick", "sleep"}
    /\ IF worker[t].pc = "started" THEN tick(t, [worker[t] EXCEPT !.start = now])
       ELSE IF worker[t].pc = "tick" THEN tick(t, worker[t])
       ELSE wake(t, worker[t])
    /\ UNCHANGED <<envVars, dialogVars, processVars, received>>

\* ------------------------------------------------------------ environment
FsCreate(p) ==
    /\ p \notin fs
    /\ fs' = fs \cup {p}
    /\ everExisted' = everExisted \cup {p}
    /\ UNCHANGED <<log, now, dialogVars, processVars, queue, worker, emitted, received>>

FsRemove(p) ==
    /\ p \in fs
    /\ fs' = fs \ {p}
    /\ UNCHANGED <<log, everExisted, now, dialogVars, processVars, queue, worker,
                   emitted, received>>

Advance ==
    /\ now < MaxTime
    /\ now' = now + 1
    /\ UNCHANGED <<fs, log, everExisted, dialogVars, processVars, queue, worker,
                   emitted, received>>

Next ==
    \/ \E items \in ItemLists : process(items)
    \/ processConnect
    \/ deliver
    \/ \E t \in Threads : run(t)
    \/ \E p \in Paths : FsCreate(p)
    \/ \E p \in Paths : FsRemove(p)
    \/ Advance

Spec == Init /\ [][Next]_vars

\* The same program for a frame whose log names the preview port.
InitPoll ==
    /\ Init
    /\ log = "portAt2"

SpecPoll == InitPoll /\ [][Next]_vars

\* The same program for the frames whose log sets the scan a boundary case:
\* the port at the last line examined, or beyond, or none.
InitScan ==
    /\ Init
    /\ log \notin {"portAt2", "twoPorts"}

SpecScan == InitScan /\ [][Next]_vars

\* ---------------------------------------------------------------- claims
Finished(t) == worker[t].pc \in {"completed", "timedout", "raised"}
IsProgress(n) == n.sig = "existCountChanged"
IsTimeout(n) == n.sig = "timeout"
IsFinal(n) == IsTimeout(n) \/ (IsProgress(n) /\ n.cur = n.max)
Has(seq, P(_)) == \E i \in DOMAIN seq : P(seq[i])
Pending(t) == SelectSeq(queue, LAMBDA n : n.thread = t)
Slotted(seq) == SelectSeq(seq, LAMBDA n : IsProgress(n) \/ IsTimeout(n))
IsSuffix(d, e) ==
    /\ Len(d) <= Len(e)
    /\ SubSeq(e, Len(e) - Len(d) + 1, Len(e)) = d

\* Number of entries of a list whose path is in a set of files.
RECURSIVE CountIn(_, _)
CountIn(items, files) ==
    IF items = <<>> THEN 0
    ELSE (IF Head(items) \in files THEN 1 ELSE 0) + CountIn(Tail(items), files)

\* Every run ends in its first tick, by the AttributeError of line 169: no
\* thread sleeps, ticks twice, completes or times out, and a run emits one
\* notification, never the timeout. (C1 and C8 speak of the timeout's
\* emission and of two successive notifications of a run; neither occurs.)
RunEndsInFirstTick ==
    \A t \in Threads :
        /\ worker[t].pc \in {"absent", "started", "raised"}
        /\ worker[t].ticks <= 1
        /\ Len(emitted[t]) <= 1
        /\ ~Has(emitted[t], IsTimeout)

\* C2: a run whose first tick finds every path of its list has emitted the
\* one notification (N, N) and is Completed, having made one tick and emitted
\* no timeout.
C2_AllExistCompletesAtOnce ==
    \A t \in Threads :
        (worker[t].ticks >= 1 /\ emitted[t][1].cur = emitted[t][1].max)
            => /\ worker[t].pc = "completed"
               /\ worker[t].ticks = 1
               /\ ~Has(emitted[t], IsTimeout)

\* C3: a run none of whose paths ever existed has, once it has ended, ended
\* TimedOut, with the timeout emitted and no notification (N, N).
C3_NoFileEverTimesOut ==
    \A t \in Threads :
        (Finished(t) /\ \A i \in DOMAIN worker[t].items :
                            worker[t].items[i] \notin everExisted)
            => /\ worker[t].pc = "timedout"
               /\ Has(emitted[t], IsTimeout)
               /\ now >= worker[t].start + 60 + (30 * Len(worker[t].items))

C5_ProgressIsExistCount ==
    [][\A t \in Threads :
          emitted'[t] # emitted[t]
            => \A i \in (Len(emitted[t]) + 1)..Len(emitted'[t]) :
                 LET n == emitted'[t][i]
                 IN  IsProgress(n)
                       => /\ n.max = Len(worker[t].items)
                          /\ n.cur = CountIn(worker[t].items, fs)
                          /\ 0 <= n.cur /\ n.cur <= n.max]_vars

C5_Witness ==
    \E t \in Threads :
        /\ worker[t].items = <<"/a", "/b">>
        /\ Len(emitted[t]) >= 1
        /\ emitted[t][1].cur = 1
        /\ emitted[t][1].max = 2

\* C6: the dialog runs the notifications of a run in the order of their
\* emission; once a run has emitted its final notification (a progress
\* notification with current = total, or the timeout) it emits nothing more,
\* once the dialog has run it the dialog runs nothing more of that run, and
\* no run emits both a progress notification (N, N) and the timeout.
C6_FinalNotificationIsLast ==
    /\ [](\A t \in Threads :
            /\ IsSuffix(received[t] \o Pending(t), Slotted(emitted[t]))
            /\ ~(Has(emitted[t], IsTimeout)
                   /\ Has(emitted[t], LAMBDA n : IsProgress(n) /\ n.cur = n.max)))
    /\ [][\A t \in Threads :
            /\ Has(emitted[t], IsFinal) => emitted'[t] = emitted[t]
            /\ Has(received[t], IsFinal) => received'[t] = received[t]]_vars

C6_Witness ==
    \E t \in Threads :
        /\ Finished(t)
        /\ Len(worker[t].items) = 2
        /\ Len(received[t]) = 1
        /\ received[t][1].cur = 2
        /\ received[t] = emitted[t]

\* C7: once a run has ended, process() has returned and nothing of the run
\* is pending in the event queue, the dialog has been closed.
C7_DialogClosedWhenRunEnds ==
    \A t \in Threads :
        (Finished(t) /\ uiPc = "idle" /\ Pending(t) = <<>>) => closed

\* A state that refutes C7 whatever becomes of the loop after line 168: the
\* first tick ran before line 101 connected the signal, so its notification
\* (N, N) reached no slot.
C7_LostFinalNotification ==
    \E t \in Threads :
        /\ Finished(t) /\ uiPc = "idle" /\ Pending(t) = <<>>
        /\ Has(emitted[t], LAMBDA n : IsProgress(n) /\ n.cur = n.max)
        /\ received[t] = <<>>
        /\ ~closed

\* C9: a process() call whose playlist has no items changes nothing but the
\* record of the call: no watch thread is created or started, app.threads,
\* the playlist files, the progress bar, the connections and the fields
\* __previewThread and __itvFile are as before (None on a new dialog).
C9_EmptyPlaylistAborts ==
    [][(calls' = calls + 1 /\ lastResult' \in {"PlaylistEmpty", "Polling"}
          /\ lastItems' = <<>>)
        => /\ UNCHANGED <<worker, appThreads, tmpFiles, progRange, progValue,
                          connected, previewThread, itvFile, queue, uiPc, closed>>
           /\ (calls = 0 => previewThread' = None /\ itvFile' = None)]_vars

C9_Witness ==
    /\ calls = 1
    /\ lastResult = "PlaylistEmpty"
    /\ lastPort = 9321
    /\ previewThread = None
    /\ itvFile = None
    /\ \A t \in Threads : worker[t].pc = "absent"

\* Line number of the first line of a file that starts with "Preview Server"
\* (0 if there is none), before lines having gone before, and that line.
RECURSIVE FirstPreview(_, _)
FirstPreview(runs, before) ==
    IF runs = <<>> THEN 0
    ELSE IF StartsWith(Head(runs).line, PreviewPrefix) THEN before + 1
    ELSE FirstPreview(Tail(runs), before + Head(runs).n)

RECURSIVE FirstPreviewLine(_)
FirstPreviewLine(runs) ==
    IF StartsWith(Head(runs).line, PreviewPrefix) THEN Head(runs).line
    ELSE FirstPreviewLine(Tail(runs))

\* C10: after a process() call, if the first "Preview Server" line of the log
\* is one of its first 5000 lines the port was found and is the integer after
\* that line's colon, and otherwise the call failed with port-not-found.
C10_PortWithinFirst5000 ==
    calls >= 1 =>
        LET pos == FirstPreview(LogFile(log), 0)
        IN  IF pos >= 1 /\ pos <= 5000
            THEN LET want == ParsePort(FirstPreviewLine(LogFile(log)))
                 IN  /\ lastResult # "PortNotFound"
                     /\ want.kind = "return" => lastPort = want.port
            ELSE lastResult = "PortNotFound"

\* C12: a process() call on a log in which the scan finds no "Preview Server"
\* line (none among the lines it examines) fails with port-not-found and
\* changes nothing else: no playlist is fetched, no playlist file written, no
\* watch thread created, started or registered, and the dialog is as before.
C12_PortNotFoundAborts ==
    [][(calls' = calls + 1
          /\ LET pos == FirstPreview(LogFile(log), 0) IN pos = 0 \/ pos > 4999)
        => /\ lastResult' = "PortNotFound"
           /\ UNCHANGED <<fetches, tmpFiles, worker, appThreads, previewThread,
                          itvFile, progRange, progValue, closed, errorBoxes,
                          connected, queue, uiPc, emitted, received>>]_vars

C12_Witness ==
    /\ calls = 1
    /\ log = "portAt5001"
    /\ lastResult = "PortNotFound"
    /\ fetches = 0
    /\ tmpFiles = 0
    /\ appThreads = <<>>
    /\ \A t \in Threads : worker[t].pc = "absent"

\* C13: a watch thread that has left its loop left it by full completion
\* (its last count is the length of its list) or by deadline expiry (the
\* clock is past its deadline), and no step that closes the dialog changes a
\* watch thread.
C13_StopsOnlyByCompletionOrDeadline ==
    \A t \in Threads :
        Finished(t)
          => \/ worker[t].pc = "completed" /\ worker[t].count = Len(worker[t].items)
             \/ worker[t].pc = "timedout" /\ now > Deadline(worker[t])

\* C14: no step of run() changes the dialog (progress value, progress range,
\* closed, error boxes), and every step that changes it is a slot run by the
\* UI event loop or process() itself.
C14_WorkerLeavesDialogAlone ==
    [][/\ (\E t \in Threads :
             worker[t].pc \in {"started", "tick", "sleep"} /\ worker'[t] # worker[t])
          => UNCHANGED dialogVars
       /\ dialogVars' # dialogVars
          => (received' # received \/ calls' = calls + 1)]_vars

C14_Witness ==
    \E t \in Threads :
        /\ worker[t].ticks >= 1
        /\ Pending(t) # <<>>
        /\ ~closed
        /\ progValue = -1
        /\ progRange = <<0, Len(worker[t].items)>>

\* C15: a watch thread that has left its loop is Completed or TimedOut, and
\* no thread makes more than 60 + 30*N + 1 ticks.
C15_EndsCompletedOrTimedOut ==
    \A t \in Threads :
        /\ worker[t].ticks <= 60 + (30 * Len(worker[t].items)) + 1
        /\ worker[t].pc \notin {"absent", "started", "tick", "sleep"}
             => worker[t].pc \in {"completed", "timedout"}

\* C16: neither process() nor run() has failed on the lookup of a signal the
\* watch thread does not declare, and a thread that has made a tick declares
\* the two signals existCountChanged and timeout.
C16_SignalsDeclared ==
    /\ lastResult # "AttributeError"
    /\ \A t \in Threads :
          /\ worker[t].pc # "raised"
          /\ worker[t].ticks >= 1 => Signals = {"existCountChanged", "timeout"}

PendingIn(q, t) == SelectSeq(q, LAMBDA n : n.thread = t)
ProgressOf(seq) == SelectSeq(seq, IsProgress)

\* C17: a watch thread has emitted as many progress notifications as it has
\* made ticks, each tick emitting one, and a tick made while the dialog's slot
\* is connected puts exactly one slot call in the event queue; the dialog
\* never runs more progress notifications of a run than the run made ticks.
C17_OneProgressPerTick ==
    /\ [](\A t \in Threads :
            /\ Len(ProgressOf(emitted[t])) = worker[t].ticks
            /\ Len(ProgressOf(received[t])) + Len(ProgressOf(Pending(t)))
                 <= worker[t].ticks)
    /\ [][\A t \in Threads :
            worker'[t].ticks = worker[t].ticks + 1
              => /\ Len(ProgressOf(emitted'[t])) = Len(ProgressOf(emitted[t])) + 1
                 /\ <<t, "existCountChanged">> \in connected
                      => Len(PendingIn(queue', t)) = Len(PendingIn(queue, t)) + 1]_vars

C17_Witness ==
    \E t \in Threads :
        /\ worker[t].ticks = 1
        /\ Len(worker[t].items) = 1
        /\ Len(ProgressOf(received[t])) = 1
        /\ received[t][1].cur = 0
        /\ Pending(t) = <<>>

IsPrefix(a, b) == Len(a) <= Len(b) /\ SubSeq(b, 1, Len(a)) = a

====
